---- MODULE Spec2Model ----
(***************************************************************************)
(* Model of src/model.py: the PendingTournament alias map and its          *)
(* maintenance, the promotion of a PendingTournament to a Tournament, the  *)
(* substitution of a player in a Tournament, and Player construction.      *)
(*                                                                         *)
(* Python values are modelled as follows.  An ObjectId is a positive       *)
(* integer and a missing id (None) is NoId.  A list field that may be      *)
(* None is a record [isNone, v]; v is the list when isNone is FALSE.       *)
(* Two fields that hold one and the same list object are modelled by a     *)
(* flag (orig_ids_is_players): a mutation in place of one is a mutation of *)
(* the other.                                                              *)
(***************************************************************************)
EXTENDS Integers, Sequences, FiniteSets, TLC

\* ---------------------------------------------------------------- bounds
MaxMatches == 1      \* longest matches list a scraper hands over
MaxChildren == 3     \* longest merge_children list a Player is built with

\* None, as the value of an ObjectId field
NoId == 0

Ids == {1, 2, 3}
Aliases == {"foo", "bar"}

SeqsUpTo(S, n) == UNION {[1..k -> S] : k \in 0..n}

\* ------------------------------------------------------------ python lists
NoneList == [isNone |-> TRUE, v |-> <<>>]
List(s) == [isNone |-> FALSE, v |-> s]

\* x in s
In(x, s) == \E i \in 1..Len(s) : s[i] = x

IndexOf(s, x) == CHOOSE i \in 1..Len(s) : s[i] = x /\ \A j \in 1..(i - 1) : s[j] # x

\* s.remove(x): drops the first element equal to x (x is in s)
ListRemove(s, x) ==
    LET i == IndexOf(s, x)
    IN  SubSeq(s, 1, i - 1) \o SubSeq(s, i + 1, Len(s))

\* ------------------------------------------------------------- documents
AliasMapping(alias, id) == [player_alias |-> alias, player_id |-> id]
AliasMatch(w, l) == [winner |-> w, loser |-> l]
Match(w, l) == [winner |-> w, loser |-> l]

NoMapping == AliasMapping("", NoId)
NoTournament ==
    [exists |-> FALSE, players |-> <<>>, orig_ids |-> <<>>, matches |-> <<>>,
     orig_ids_is_players |-> FALSE]
NoPlayer == [exists |-> FALSE, id |-> NoId, given |-> NoneList, merge_children |-> NoneList]
NoArg == [isNone |-> TRUE, id |-> NoId]
PlayerArg(i) == [isNone |-> FALSE, id |-> i]
NoLast ==
    [op |-> "", alias |-> "", id |-> NoId, remove |-> NoArg, add |-> NoArg,
     ret |-> "", returned |-> NoMapping]

VARIABLES
    pending_tournament,   \* the PendingTournament: players, matches, alias_to_id_map
    tournament,           \* the Tournament from_pending_tournament produced, if any
    player,               \* the Player last constructed, if any
    last,                 \* the last call: operation, arguments, outcome
    old,                  \* alias_to_id_map and tournament as they were before it
    since                 \* alias -> id of the latest set not deleted since

vars == <<pending_tournament, tournament, player, last, old, since>>

\* the aliases the pending tournament names: its players and its matches' sides
UsedAliases(pt) ==
    {pt.players[i] : i \in 1..Len(pt.players)}
        \cup {pt.matches[i].winner : i \in 1..Len(pt.matches)}
        \cup {pt.matches[i].loser : i \in 1..Len(pt.matches)}

\* ------------------------------------------------- PendingTournament
\* if self.alias_to_id_map is None: self.alias_to_id_map = []
init_if_none(m) == IF m.isNone THEN List(<<>>) ELSE m

\* the list after set_alias_id_mapping(alias, id); entries is the list, [] when
\* the field was None
AlwaysAppend(entries, alias, id) == Append(entries, AliasMapping(alias, id))

set_alias_id_mapping_list(entries, alias, id) ==
    IF \E i \in 1..Len(entries) : entries[i].player_alias = alias
    THEN LET i == CHOOSE k \in 1..Len(entries) :
                      /\ entries[k].player_alias = alias
                      /\ \A j \in 1..(k - 1) : entries[j].player_alias # alias
         IN  [entries EXCEPT ![i] = AliasMapping(alias, id)]
    ELSE Append(entries, AliasMapping(alias, id))

\* the mapping delete_alias_id_mapping(alias) finds: the first with that alias
FoundMapping(entries, alias) ==
    entries[CHOOSE k \in 1..Len(entries) :
                /\ entries[k].player_alias = alias
                /\ \A j \in 1..(k - 1) : entries[j].player_alias # alias]

DropHead(entries, alias) == Tail(entries)

\* the list after delete_alias_id_mapping(alias) found a mapping
delete_alias_id_mapping_list(entries, alias) ==
    ListRemove(entries, FoundMapping(entries, alias))

\* ------------------------------------------------------- Tournament
\* dict([(entry.player_alias, entry.player_id) for entry in alias_to_id_map
\*       if entry.player_id is not None]): a later pair overwrites an earlier one
DictOfAllEntries(entries) ==
    LET keys == {entries[i].player_alias : i \in 1..Len(entries)}
    IN  [a \in keys |->
            LET k == CHOOSE i \in 1..Len(entries) :
                         /\ entries[i].player_alias = a
                         /\ \A j \in (i + 1)..Len(entries) : entries[j].player_alias # a
            IN  entries[k].player_id]

alias_to_id_dict(entries) ==
    LET kept == {i \in 1..Len(entries) : entries[i].player_id # NoId}
        keys == {entries[i].player_alias : i \in kept}
    IN  [a \in keys |->
            LET k == CHOOSE i \in kept :
                         /\ entries[i].player_alias = a
                         /\ \A j \in kept : j > i => entries[j].player_alias # a
            IN  entries[k].player_id]

\* _get_player_id_from_map_or_throw raises ValueError for such an alias
Throws(d, alias) == alias \notin DOMAIN d

ReversedPlayers(d, ps) == [i \in 1..Len(ps) |-> d[ps[Len(ps) + 1 - i]]]

\* [_get_player_id_from_map_or_throw(alias_to_id_map, p) for p in players]
resolve_players(d, ps) == [i \in 1..Len(ps) |-> d[ps[i]]]

resolve_matches(d, ms) == [i \in 1..Len(ms) |-> Match(d[ms[i].winner], d[ms[i].loser])]

\* orm.Document's constructor: each keyword argument becomes the field of that
\* name, the object the caller passed and no copy of it
DocumentInit(kwargs) == kwargs

\* from_pending_tournament(pt): how it ends, and the Tournament it returns
from_pending_tournament_result(pt) ==
    IF pt.alias_to_id_map.isNone
    THEN [ret |-> "TypeError", tournament |-> NoTournament]
    ELSE LET d == alias_to_id_dict(pt.alias_to_id_map.v)
         IN  IF \E a \in UsedAliases(pt) : Throws(d, a)
             THEN [ret |-> "ValueError", tournament |-> NoTournament]
             ELSE LET ps == resolve_players(d, pt.players)
                  IN  [ret |-> "ok",
                       tournament |->
                           DocumentInit([exists |-> TRUE,
                                         players |-> ps,
                                         orig_ids |-> ps,
                                         matches |-> resolve_matches(d, pt.matches),
                                         orig_ids_is_players |-> TRUE])]

SubstituteInPlace(ps, remove_id, add_id) ==
    [i \in 1..Len(ps) |-> IF ps[i] = remove_id THEN add_id ELSE ps[i]]

\* self.players.remove(player_to_remove_id); self.players.append(player_to_add_id)
replace_in_players(ps, remove_id, add_id) == Append(ListRemove(ps, remove_id), add_id)

RewriteWinnersOnly(ms, remove_id, add_id) ==
    [i \in 1..Len(ms) |->
        Match(IF ms[i].winner = remove_id THEN add_id ELSE ms[i].winner, ms[i].loser)]

\* the loop over self.matches
replace_in_matches(ms, remove_id, add_id) ==
    [i \in 1..Len(ms) |->
        Match(IF ms[i].winner = remove_id THEN add_id ELSE ms[i].winner,
              IF ms[i].loser = remove_id THEN add_id ELSE ms[i].loser)]

NoMembershipCheck(t, remove, add) ==
    IF remove.isNone \/ add.isNone
    THEN [ret |-> "TypeError", tournament |-> t]
    ELSE [ret |-> "ok",
          tournament |->
              [t EXCEPT !.players = Append(IF In(remove.id, t.players)
                                           THEN ListRemove(t.players, remove.id)
                                           ELSE t.players, add.id),
                        !.matches = replace_in_matches(t.matches, remove.id, add.id)]]

\* t.replace_player(remove, add): how it ends, and t afterwards
replace_player_result(t, remove, add) ==
    IF remove.isNone \/ add.isNone
    THEN [ret |-> "TypeError", tournament |-> t]
    ELSE IF ~In(remove.id, t.players)
    THEN [ret |-> "ignored", tournament |-> t]
    ELSE LET ps == replace_in_players(t.players, remove.id, add.id)
         IN  [ret |-> "ok",
              tournament |->
                  [t EXCEPT !.players = ps,
                            !.orig_ids = IF t.orig_ids_is_players THEN ps ELSE @,
                            !.matches = replace_in_matches(t.matches, remove.id, add.id)]]

\* ------------------------------------------------------------ Player
OwnIdAlways(id, merge_children) ==
    IF merge_children.isNone \/ ~In(id, merge_children.v)
    THEN List(<<id>>)
    ELSE merge_children

\* merge_children after post_init
post_init(id, merge_children) ==
    IF merge_children.isNone \/ merge_children.v = <<>>
    THEN List(<<id>>)
    ELSE merge_children

\* ------------------------------------------------------------ actions
\* What a scraper hands over: the entrants' names, each once, in any order, and
\* matches between two different names (not necessarily names of the players
\* list: nothing checks that); alias_to_id_map is not set by from_scraper.
ScrapedPlayers ==
    {s \in SeqsUpTo(Aliases, Cardinality(Aliases)) :
        \A i, j \in 1..Len(s) : i # j => s[i] # s[j]}

ScrapedMatches ==
    SeqsUpTo({m \in [winner : Aliases, loser : Aliases] : m.winner # m.loser}, MaxMatches)

PendingTournaments ==
    [players : ScrapedPlayers,
     matches : ScrapedMatches,
     alias_to_id_map : {NoneList, List(<<>>)}]

Init ==
    /\ pending_tournament \in PendingTournaments
    /\ tournament = NoTournament
    /\ player = NoPlayer
    /\ last = NoLast
    /\ old = [alias_to_id_map |-> pending_tournament.alias_to_id_map,
              tournament |-> NoTournament]
    /\ since = [a \in {} |-> NoId]

\* Lifecycle: the alias map of the pending tournament is maintained until
\* from_pending_tournament has returned a Tournament (a failed promotion can be
\* followed by more maintenance and another attempt); replace_player is called
\* on the Tournament it returned.
set_alias_id_mapping(alias, id) ==
    /\ ~tournament.exists
    /\ LET entries == init_if_none(pending_tournament.alias_to_id_map).v
           found == \E i \in 1..Len(entries) : entries[i].player_alias = alias
       IN  /\ pending_tournament' =
                  [pending_tournament EXCEPT
                      !.alias_to_id_map = List(set_alias_id_mapping_list(entries, alias, id))]
           /\ last' = [NoLast EXCEPT !.op = "set_alias_id_mapping", !.alias = alias,
                                      !.id = id,
                                      !.ret = IF found THEN "updated" ELSE "appended"]
    /\ old' = [alias_to_id_map |-> pending_tournament.alias_to_id_map,
               tournament |-> tournament]
    /\ since' = [a \in DOMAIN since \cup {alias} |-> IF a = alias THEN id ELSE since[a]]
    /\ UNCHANGED <<tournament, player>>

delete_alias_id_mapping(alias) ==
    /\ ~tournament.exists
    /\ LET entries == init_if_none(pending_tournament.alias_to_id_map).v
           found == \E i \in 1..Len(entries) : entries[i].player_alias = alias
       IN  /\ pending_tournament' =
                  [pending_tournament EXCEPT
                      !.alias_to_id_map =
                          List(IF found THEN delete_alias_id_mapping_list(entries, alias)
                                        ELSE entries)]
           /\ last' = [NoLast EXCEPT !.op = "delete_alias_id_mapping", !.alias = alias,
                                      !.ret = IF found THEN "mapping" ELSE "None",
                                      !.returned = IF found THEN FoundMapping(entries, alias)
                                                            ELSE NoMapping]
    /\ old' = [alias_to_id_map |-> pending_tournament.alias_to_id_map,
               tournament |-> tournament]
    /\ since' = [a \in DOMAIN since \ {alias} |-> since[a]]
    /\ UNCHANGED <<tournament, player>>

from_pending_tournament ==
    /\ ~tournament.exists
    /\ LET r == from_pending_tournament_result(pending_tournament)
       IN  /\ tournament' = r.tournament
           /\ last' = [NoLast EXCEPT !.op = "from_pending_tournament", !.ret = r.ret]
    /\ old' = [alias_to_id_map |-> pending_tournament.alias_to_id_map,
               tournament |-> tournament]
    /\ UNCHANGED <<pending_tournament, player, since>>

PlayerArgs == {NoArg} \cup {PlayerArg(i) : i \in Ids}

replace_player(remove, add) ==
    /\ tournament.exists
    /\ LET r == replace_player_result(tournament, remove, add)
       IN  /\ tournament' = r.tournament
           /\ last' = [NoLast EXCEPT !.op = "replace_player", !.remove = remove,
                                      !.add = add, !.ret = r.ret]
    /\ old' = [alias_to_id_map |-> pending_tournament.alias_to_id_map,
               tournament |-> tournament]
    /\ UNCHANGED <<pending_tournament, player, since>>

Next ==
    \/ \E alias \in Aliases, id \in Ids \cup {NoId} : set_alias_id_mapping(alias, id)
    \/ \E alias \in Aliases : delete_alias_id_mapping(alias)
    \/ from_pending_tournament
    \/ \E remove \in PlayerArgs, add \in PlayerArgs : replace_player(remove, add)

Spec == Init /\ [][Next]_vars

\* Player construction on its own
MergeChildrenArgs == {NoneList} \cup {List(s) : s \in SeqsUpTo(Ids, MaxChildren)}

InitPlayer ==
    /\ pending_tournament = [players |-> <<>>, matches |-> <<>>, alias_to_id_map |-> NoneList]
    /\ tournament = NoTournament
    /\ player = NoPlayer
    /\ last = NoLast
    /\ old = [alias_to_id_map |-> pending_tournament.alias_to_id_map,
              tournament |-> NoTournament]
    /\ since = [a \in {} |-> NoId]

\* Player(id=id, merge_children=merge_children): the fields are set, then post_init runs
Player(id, merge_children) ==
    /\ player' = [exists |-> TRUE, id |-> id, given |-> merge_children,
                  merge_children |-> post_init(id, merge_children)]
    /\ last' = [NoLast EXCEPT !.op = "Player", !.id = id, !.ret = "ok"]
    /\ UNCHANGED <<pending_tournament, tournament, old, since>>

NextPlayer == \E id \in Ids, merge_children \in MergeChildrenArgs : Player(id, merge_children)

SpecPlayer == InitPlayer /\ [][NextPlayer]_vars

\* ------------------------------------------------------------ claims
pt == pending_tournament
t == tournament

HasEntry(m, alias) == \E i \in 1..Len(m.v) : m.v[i].player_alias = alias
HasIdEntry(m, alias) ==
    \E i \in 1..Len(m.v) : m.v[i].player_alias = alias /\ m.v[i].player_id # NoId
\* alias has an entry in m, and every entry it has carries id
MappedTo(m, alias, id) ==
    /\ \E i \in 1..Len(m.v) : m.v[i].player_alias = alias
    /\ \A i \in 1..Len(m.v) : m.v[i].player_alias = alias => m.v[i].player_id = id

Promoted == last.op = "from_pending_tournament"
Replaced == last.op = "replace_player" /\ ~last.remove.isNone /\ ~last.add.isNone
Deleted == last.op = "delete_alias_id_mapping"

\* C1 as stated, for a pending tournament that has its alias_to_id_map list:
\* from_pending_tournament fails, producing no Tournament, if and only if some
\* alias of the players list or of a match has no entry in alias_to_id_map;
\* otherwise it returns a Tournament.
C1_FailsIffAliasWithoutEntry ==
    (Promoted /\ ~pt.alias_to_id_map.isNone) =>
        /\ (last.ret # "ok") <=> (\E a \in UsedAliases(pt) : ~HasEntry(pt.alias_to_id_map, a))
        /\ t.exists <=> (last.ret = "ok")

\* C1 amended: from_pending_tournament fails, producing no Tournament, if and only
\* if alias_to_id_map is None or some alias of the players list or of a match has
\* no entry carrying an id (an entry whose player_id is None does not count);
\* with a list present the failure is the resolution error (ValueError).
C1_FailsIffAliasWithoutId ==
    Promoted =>
        /\ (last.ret # "ok") <=>
              \/ pt.alias_to_id_map.isNone
              \/ \E a \in UsedAliases(pt) : ~HasIdEntry(pt.alias_to_id_map, a)
        /\ t.exists <=> (last.ret = "ok")
        /\ (last.ret # "ok" /\ ~pt.alias_to_id_map.isNone) => last.ret = "ValueError"

\* promotion failed although every alias has an entry: one entry has no id
C1_Witness ==
    /\ Promoted
    /\ last.ret = "ValueError"
    /\ UsedAliases(pt) # {}
    /\ \A a \in UsedAliases(pt) : HasEntry(pt.alias_to_id_map, a)

\* C2: when from_pending_tournament succeeds, players has the length and order
\* of the pending players, element i being the id mapped to pending alias i;
\* orig_ids equals players; match i has the ids mapped to the winner and loser
\* aliases of pending match i.
C2_ResolvedInOrder ==
    (Promoted /\ last.ret = "ok") =>
        /\ Len(t.players) = Len(pt.players)
        /\ \A i \in 1..Len(pt.players) :
              MappedTo(pt.alias_to_id_map, pt.players[i], t.players[i])
        /\ t.orig_ids = t.players
        /\ Len(t.matches) = Len(pt.matches)
        /\ \A i \in 1..Len(pt.matches) :
              /\ MappedTo(pt.alias_to_id_map, pt.matches[i].winner, t.matches[i].winner)
              /\ MappedTo(pt.alias_to_id_map, pt.matches[i].loser, t.matches[i].loser)

C2_Witness ==
    /\ Promoted
    /\ last.ret = "ok"
    /\ Len(t.players) = 2
    /\ t.players[1] # t.players[2]
    /\ Len(t.matches) >= 1
    /\ t.matches[1].winner = t.players[2]

MatchesSubstituted(before, after, remove_id, add_id) ==
    /\ Len(after) = Len(before)
    /\ \A i \in 1..Len(before) :
          /\ after[i].winner = IF before[i].winner = remove_id THEN add_id ELSE before[i].winner
          /\ after[i].loser = IF before[i].loser = remove_id THEN add_id ELSE before[i].loser

\* C3 as stated: with remove's id in players, replace_player(remove, add)
\* replaces every occurrence of remove's id in players at its own position, and
\* every match side equal to remove's id becomes add's id, the rest staying.
C3_SubstitutedInPlace ==
    (Replaced /\ In(last.remove.id, old.tournament.players)) =>
        /\ Len(t.players) = Len(old.tournament.players)
        /\ \A i \in 1..Len(old.tournament.players) :
              t.players[i] = IF old.tournament.players[i] = last.remove.id
                             THEN last.add.id
                             ELSE old.tournament.players[i]
        /\ MatchesSubstituted(old.tournament.matches, t.matches, last.remove.id, last.add.id)

\* C3 amended: with remove's id in players, replace_player(remove, add)
\* deletes the first occurrence of remove's id from players, the later entries
\* moving up one place, and puts add's id at the end (players=[A,B,C],
\* replace_player(A,D) gives [B,C,D]); every match side equal to remove's id
\* becomes add's id, the rest staying.
C3_FirstRemovedAddAppended ==
    (Replaced /\ In(last.remove.id, old.tournament.players)) =>
        LET before == old.tournament.players
            n == Len(before)
        IN  /\ Len(t.players) = n
            /\ t.players[n] = last.add.id
            /\ \E k \in 1..n :
                  /\ before[k] = last.remove.id
                  /\ \A j \in 1..(k - 1) : before[j] # last.remove.id /\ t.players[j] = before[j]
                  /\ \A j \in k..(n - 1) : t.players[j] = before[j + 1]
            /\ MatchesSubstituted(old.tournament.matches, t.matches,
                                  last.remove.id, last.add.id)

\* the removed player headed a two-player list and played a match
C3_Witness ==
    /\ Replaced
    /\ Len(old.tournament.players) = 2
    /\ old.tournament.players[1] = last.remove.id
    /\ old.tournament.players[2] # last.remove.id
    /\ last.add.id \notin {old.tournament.players[1], old.tournament.players[2]}
    /\ \E i \in 1..Len(old.tournament.matches) :
          old.tournament.matches[i].winner = last.remove.id
    /\ t.players = <<old.tournament.players[2], last.add.id>>

\* C4: replace_player(remove, add) with remove's id not in players raises
\* nothing and leaves players, orig_ids and every match as they were, even
\* when a match names remove's id.
C4_AbsentPlayerIsNoOp ==
    (Replaced /\ ~In(last.remove.id, old.tournament.players)) =>
        /\ last.ret = "ignored"
        /\ t.players = old.tournament.players
        /\ t.orig_ids = old.tournament.orig_ids
        /\ t.matches = old.tournament.matches

C4_Witness ==
    /\ Replaced
    /\ ~In(last.remove.id, old.tournament.players)
    /\ \E i \in 1..Len(old.tournament.matches) :
          old.tournament.matches[i].winner = last.remove.id
    /\ last.add.id # last.remove.id

\* C5: starting from a None or empty alias_to_id_map, after any sequence of
\* set_alias_id_mapping and delete_alias_id_mapping calls the list holds at
\* most one entry per alias, an alias has an entry exactly when it was set and
\* not deleted since, and the entry carries the id of the latest set.
C5_ListIsMap ==
    LET m == pt.alias_to_id_map
    IN  /\ \A i, j \in 1..Len(m.v) : m.v[i].player_alias = m.v[j].player_alias => i = j
        /\ {m.v[i].player_alias : i \in 1..Len(m.v)} = DOMAIN since
        /\ \A i \in 1..Len(m.v) : m.v[i].player_id = since[m.v[i].player_alias]

\* an alias set a second time, to another id, with another alias behind it
C5_Witness ==
    /\ last.op = "set_alias_id_mapping"
    /\ last.ret = "updated"
    /\ Len(old.alias_to_id_map.v) = 2
    /\ old.alias_to_id_map.v[1].player_alias = last.alias
    /\ old.alias_to_id_map.v[1].player_id # last.id
    /\ pt.alias_to_id_map.v[1] = AliasMapping(last.alias, last.id)

\* the entries of after are those of before without the one at k
WithoutEntry(before, after, k) ==
    /\ Len(after) = Len(before) - 1
    /\ \A j \in 1..(k - 1) : after[j] = before[j]
    /\ \A j \in k..(Len(before) - 1) : after[j] = before[j + 1]

DeleteRemovesFirst ==
    HasEntry(old.alias_to_id_map, last.alias) =>
        /\ last.ret = "mapping"
        /\ ~pt.alias_to_id_map.isNone
        /\ \E k \in 1..Len(old.alias_to_id_map.v) :
              /\ old.alias_to_id_map.v[k].player_alias = last.alias
              /\ \A j \in 1..(k - 1) : old.alias_to_id_map.v[j].player_alias # last.alias
              /\ last.returned = old.alias_to_id_map.v[k]
              /\ WithoutEntry(old.alias_to_id_map.v, pt.alias_to_id_map.v, k)

\* C6 as stated: delete_alias_id_mapping(alias) with no entry for alias (the
\* list empty or None included) returns the not-found signal and leaves
\* alias_to_id_map unchanged; with an entry it removes exactly the first entry
\* with that alias, returns it, and leaves the others in place and in order.
C6_AbsentLeavesFieldUnchanged ==
    Deleted =>
        /\ ~HasEntry(old.alias_to_id_map, last.alias) =>
              /\ last.ret = "None"
              /\ pt.alias_to_id_map = old.alias_to_id_map
        /\ DeleteRemovesFirst

\* C6 amended: as stated, except that a None alias_to_id_map becomes the
\* empty list: with no entry for alias the call returns the not-found signal
\* and leaves the entries of the list as they were.
C6_AbsentLeavesEntriesUnchanged ==
    Deleted =>
        /\ ~HasEntry(old.alias_to_id_map, last.alias) =>
              /\ last.ret = "None"
              /\ ~pt.alias_to_id_map.isNone
              /\ pt.alias_to_id_map.v = old.alias_to_id_map.v
        /\ DeleteRemovesFirst

\* the second of two entries deleted
C6_Witness ==
    /\ Deleted
    /\ Len(old.alias_to_id_map.v) = 2
    /\ old.alias_to_id_map.v[2].player_alias = last.alias
    /\ last.ret = "mapping"
    /\ pt.alias_to_id_map.v = <<old.alias_to_id_map.v[1]>>

\* C7: whatever merge_children a Player is constructed with, its own id is in
\* merge_children once construction has finished.
C7_OwnIdInMergeChildren ==
    player.exists => (~player.merge_children.isNone /\ In(player.id, player.merge_children.v))

MatchSidesArePlayers ==
    \A i \in 1..Len(t.matches) :
        In(t.matches[i].winner, t.players) /\ In(t.matches[i].loser, t.players)

\* C8 as stated: in every Tournament from_pending_tournament produced, and
\* after any replace_player calls on it, the winner and the loser of every
\* match are in players.
C8_MatchSidesArePlayers == t.exists => MatchSidesArePlayers

\* C8 amended: the same, for a pending tournament whose matches name only
\* aliases of its own players list.
C8_MatchSidesArePlayersIfPendingDid ==
    (t.exists /\ \A i \in 1..Len(pt.matches) :
                     In(pt.matches[i].winner, pt.players) /\ In(pt.matches[i].loser, pt.players))
        => MatchSidesArePlayers

C8_Witness ==
    /\ Replaced
    /\ last.ret = "ok"
    /\ Len(pt.matches) >= 1
    /\ \A i \in 1..Len(pt.matches) :
          In(pt.matches[i].winner, pt.players) /\ In(pt.matches[i].loser, pt.players)
    /\ \E i \in 1..Len(old.tournament.matches) :
          old.tournament.matches[i].loser = last.remove.id
    /\ ~In(last.add.id, old.tournament.players)

NoSelfMatch(ms) == \A i \in 1..Len(ms) : ms[i].winner # ms[i].loser

\* C9: replace_player never manufactures a self-match: a tournament with no
\* match of a player against themself has none after replace_player(remove,
\* add); a call that would make one is rejected with an error.
C9_NoSelfMatchManufactured ==
    (Replaced /\ NoSelfMatch(old.tournament.matches)) => NoSelfMatch(t.matches)

\* C10: replace_player never modifies orig_ids: after any replace_player calls
\* orig_ids is still the id list resolved at promotion.
C10_OrigIdsKept ==
    t.exists =>
        /\ Len(t.orig_ids) = Len(pt.players)
        /\ \A i \in 1..Len(pt.players) :
              MappedTo(pt.alias_to_id_map, pt.players[i], t.orig_ids[i])

====
